---- MODULE Spec2Model ----
(***************************************************************************)
(* Growth-tracking pipeline of youtuber_monitor_pro: the per-channel       *)
(* history store (utils.py), the growth calculator (generate_report.py,    *)
(* monthly_report.py), the monitor update loop and the inactive-channel    *)
(* pruning (monitor.py).                                                   *)
(*                                                                         *)
(* Timestamps are integers counted in units of 1/DayUnits day; ISO-8601    *)
(* strings of one format order exactly as these integers do.  A history    *)
(* file is the sequence of its rows; a missing file is the empty sequence  *)
(* (safe_read_csv returns an empty frame for it).                          *)
(***************************************************************************)
EXTENDS Integers, Sequences, FiniteSets, TLC

VARIABLES hist, last, res, snapshot, archive, now, pc, df, idx, updated, pass,
          mtries, calls, tmp, writer, collect

vars == <<hist, last, res, snapshot, archive, now, pc, df, idx, updated, pass,
          mtries, calls, tmp, writer, collect>>

(* ---------------- configuration (config.py) ---------------- *)
MAX_HISTORY_RECORDS == 7
MIN_INACTIVE_DAYS == 7
\* GROWTH_THRESHOLD = 0.01, kept as the fraction ThresholdNum / ThresholdDen
ThresholdNum == 1
ThresholdDen == 100
FILTER_SHORT_VIDEOS == TRUE
\* round(growth_rate, 4): a stored rate is an integer count of 1/RateScale percent
RateScale == 10000

(* ---------------- bounds of the model ---------------- *)
DayUnits == 2
MaxTime == 7
MaxOffset == 1
MaxGrowthRecords == 3
MaxPasses == 2
MaxPolls == 8
MaxWrites == 3
MaxRows == 2
MaxCollect == 2
MaxTries == 4
MaxDays == 8
MaxInterrupts == 1

Min(a, b) == IF a < b THEN a ELSE b

(* ---------------- history store (utils.py) ---------------- *)
HistRecord(d, s) == [date |-> d, subscribers |-> s]

Reverse(s) == [i \in 1..Len(s) |-> s[Len(s) + 1 - i]]

\* numpy's argsort on at most 16 elements is an insertion sort: an element
\* moves left only past strictly greater keys, so equal keys keep their order.
RECURSIVE InsertByDate(_, _)
InsertByDate(s, x) ==
    IF s = <<>> THEN <<x>>
    ELSE IF s[Len(s)].date > x.date
         THEN Append(InsertByDate(SubSeq(s, 1, Len(s) - 1), x), s[Len(s)])
         ELSE Append(s, x)

RECURSIVE ArgSort(_)
ArgSort(s) ==
    IF s = <<>> THEN <<>>
    ELSE InsertByDate(ArgSort(SubSeq(s, 1, Len(s) - 1)), s[Len(s)])

\* mutant: rows left in the order they come in
sort_values_none(s, ascending) == s

\* DataFrame.sort_values("date", ascending=...): pandas sorts descending by
\* reversing the rows, sorting ascending and reversing the outcome.
sort_values(s, ascending) ==
    IF ascending THEN ArgSort(s) ELSE Reverse(ArgSort(Reverse(s)))

\* mutant: no deduplication at all
drop_duplicates_none(s) == s

\* DataFrame.drop_duplicates(subset=["date"]): the first row of each date stays.
RECURSIVE drop_duplicates(_)
drop_duplicates(s) ==
    IF s = <<>> THEN <<>>
    ELSE LET init == SubSeq(s, 1, Len(s) - 1)
             x    == s[Len(s)]
         IN  IF \E i \in 1..Len(init) : init[i].date = x.date
             THEN drop_duplicates(init)
             ELSE Append(drop_duplicates(init), x)

\* mutant: no truncation to the retention maximum
head_untruncated(s, n) == s

\* mutant: the truncation keeps the rows at the end of the frame
head_from_end(s, n) == SubSeq(s, Len(s) - Min(Len(s), n) + 1, Len(s))

head(s, n) == SubSeq(s, 1, Min(Len(s), n))

tail(s, n) == SubSeq(s, Len(s) - Min(Len(s), n) + 1, Len(s))

\* the series append_history persists for (record_date, subs) on the series h
append_history(h, record_date, subs) ==
    LET concat == Append(h, HistRecord(record_date, subs))
        desc   == sort_values(concat, FALSE)
        dedup  == drop_duplicates(desc)
        kept   == head(dedup, MAX_HISTORY_RECORDS)
    IN  sort_values(kept, TRUE)

get_channel_history(h, limit) == IF limit > 0 THEN tail(h, limit) ELSE h

Dates(h) == {h[i].date : i \in 1..Len(h)}

CountAt(h, d) == {h[i].subscribers : i \in {j \in 1..Len(h) : h[j].date = d}}

(* ---------------- growth calculator ---------------- *)
\* a growth rate amount / start * 100, kept as the exact fraction num / den
Rate(amount, start) == [num |-> amount * 100, den |-> start]
ZeroRate == [num |-> 0, den |-> 1]

GrowthResult(amount, rate, start, end, days) ==
    [growth_amount |-> amount, growth_rate |-> rate, start_subs |-> start,
     end_subs |-> end, data_days |-> days]

ZeroGrowth(days) == GrowthResult(0, ZeroRate, 0, 0, days)

\* end_date = history_df['date'].max()
MaxDate(h) == CHOOSE d \in Dates(h) : \A e \in Dates(h) : e <= d

\* history_df[history_df['date'] <= start_date], rows in the frame's order
SelectUpTo(h, start_date) == SelectSeq(h, LAMBDA r : r.date <= start_date)

\* mutant: a started day counts as a whole day
WholeDays_round_up(from, to) == (to - from + DayUnits - 1) \div DayUnits

\* mutant: the span counted in clock units instead of whole days
WholeDays_units(from, to) == to - from

\* (end_date - start_record['date']).days: whole days of a non-negative span
WholeDays(from, to) == (to - from) \div DayUnits

\* lines 34-58 of calculate_growth, shared word for word by
\* calculate_monthly_growth except for the reliability floor
GrowthOver(h, days, floor) ==
    LET history_df   == sort_values(h, TRUE)
        end_date     == MaxDate(history_df)
        start_date   == end_date - days * DayUnits
        start_period == SelectUpTo(history_df, start_date)
        fallback     == start_period = <<>>
        start_record == IF fallback THEN history_df[1]
                        ELSE start_period[Len(start_period)]
        actual_days  == IF fallback THEN WholeDays(start_record.date, end_date)
                        ELSE days
        end_record   == history_df[Len(history_df)]
        start_subs   == start_record.subscribers
        end_subs     == end_record.subscribers
        growth_amount == end_subs - start_subs
        growth_rate  == IF start_subs > 0 THEN Rate(growth_amount, start_subs)
                        ELSE ZeroRate
    IN  IF fallback /\ actual_days < floor
        THEN ZeroGrowth(actual_days)
        ELSE GrowthResult(growth_amount, growth_rate, start_subs, end_subs,
                          actual_days)

\* mutant: a short history reports its record count as data-days
calculate_growth_short(h, days) ==
    IF Len(h) < 2 THEN ZeroGrowth(Len(h)) ELSE GrowthOver(h, days, Min(3, days))

\* calculate_growth(channel_id, days) of generate_report.py on the stored series h
calculate_growth(h, days) ==
    IF Len(h) < 2 THEN ZeroGrowth(0) ELSE GrowthOver(h, days, Min(3, days))

\* calculate_monthly_growth(channel_id, days) of monthly_report.py
calculate_monthly_growth(h, days) ==
    IF Len(h) < 2 THEN ZeroGrowth(0) ELSE GrowthOver(h, days, 7)

(* ---------------- state ---------------- *)
Ids == {"a", "b", "c"}
NoId == ""
Times == 0..MaxTime
Counts == {1000, 1100}
\* polls on day 0, 1, 4 and 8, up to MaxOffset clock units into the day
PollDays == {0, 1, 4, 8}
GrowthTimes == {d * DayUnits + o : d \in PollDays, o \in 0..MaxOffset}
GrowthCounts == {1000, 1100, 1300}
WindowDays == {1, 7, 30}

NoCall == [op |-> "none"]
NoResult == [fn |-> "none"]
NoWrite == [path |-> "none", interrupted |-> FALSE]

InitIdle ==
    /\ last = NoCall
    /\ res = NoResult
    /\ archive = <<>>
    /\ now = 1
    /\ pc = "idle"
    /\ df = <<>>
    /\ idx = 0
    /\ updated = FALSE
    /\ pass = 0
    /\ mtries = 0
    /\ calls = <<>>
    /\ tmp = <<>>
    /\ writer = NoWrite
    /\ collect = <<>>

(* ---------------- the history store alone ---------------- *)
\* append_history(channel_id, record_date, subs) called directly
AppendHistory(id, t, c) ==
    /\ pc = "idle"
    /\ hist' = [hist EXCEPT ![id] = append_history(hist[id], t, c)]
    /\ res' = NoResult
    /\ UNCHANGED <<last, snapshot, archive, now, pc, df, idx, updated, pass,
                 mtries, calls, tmp, writer, collect>>

InitHistory ==
    /\ InitIdle
    /\ hist = [i \in Ids |-> <<>>]
    /\ snapshot = <<>>

NextHistory == \E t \in Times, c \in Counts : AppendHistory("a", t, c)

SpecHistory == InitHistory /\ [][NextHistory]_vars

\* C1: after any sequence of append_history calls the persisted series of an
\* entity holds at most MAX_HISTORY_RECORDS records.
TheoremC1 == \A i \in Ids : Len(hist[i]) <= MAX_HISTORY_RECORDS

\* a full series on which one more new date, newer than its oldest record, is
\* appended: the outcome is full again
WitnessC1 ==
    /\ Len(hist["a"]) = MAX_HISTORY_RECORDS
    /\ \E t \in Times \ Dates(hist["a"]) :
          /\ t > hist["a"][1].date
          /\ Len(append_history(hist["a"], t, 1000)) = MAX_HISTORY_RECORDS

\* C2: a call whose timestamp is already in the series with another count
\* leaves exactly one record for that timestamp, carrying the later call's count.
ClaimC2 ==
    \A i \in Ids : \A t \in Dates(hist[i]) : \A c \in Counts :
        CountAt(hist[i], t) # {c} =>
            LET after == append_history(hist[i], t, c)
            IN  /\ Cardinality({k \in 1..Len(after) : after[k].date = t}) = 1
                /\ CountAt(after, t) = {c}

\* C3: on every reachable series, appending the same (timestamp, count) twice in
\* a row yields the series that appending it once yields.
TheoremC3 ==
    \A t \in Times : \A c \in Counts :
        LET once == append_history(hist["a"], t, c)
        IN  append_history(once, t, c) = once

\* the series is the outcome of appending (t, c) to it: it holds that record
\* among others, and appending it again changes nothing
WitnessC3 ==
    /\ Len(hist["a"]) >= 2
    /\ \E t \in Dates(hist["a"]) : \E c \in CountAt(hist["a"], t) :
          append_history(hist["a"], t, c) = hist["a"]

(* ---------------- the growth calculator on stored series ---------------- *)
\* a poll later than every stored record, as the update loop issues them
AppendLater(id, t, c) ==
    /\ Len(hist[id]) < MaxGrowthRecords
    /\ \A d \in Dates(hist[id]) : d < t
    /\ AppendHistory(id, t, c)

CalcGrowth(id, days) ==
    /\ pc = "idle"
    /\ res' = [fn |-> "calculate_growth", id |-> id, days |-> days,
               out |-> calculate_growth(get_channel_history(hist[id], 0), days)]
    /\ UNCHANGED <<hist, last, snapshot, archive, now, pc, df, idx, updated, pass,
                 mtries, calls, tmp, writer, collect>>

CalcMonthlyGrowth(id) ==
    /\ pc = "idle"
    /\ res' = [fn |-> "calculate_monthly_growth", id |-> id, days |-> 30,
               out |-> calculate_monthly_growth(get_channel_history(hist[id], 0), 30)]
    /\ UNCHANGED <<hist, last, snapshot, archive, now, pc, df, idx, updated, pass,
                 mtries, calls, tmp, writer, collect>>

NextGrowth ==
    \/ \E t \in GrowthTimes, c \in GrowthCounts : AppendLater("a", t, c)
    \/ \E days \in WindowDays : CalcGrowth("a", days)
    \/ CalcMonthlyGrowth("a")

SpecGrowth == InitHistory /\ [][NextGrowth]_vars

Computed == res.fn \in {"calculate_growth", "calculate_monthly_growth"}

\* the reliability floor each calculator applies to a fallback anchor
FloorOf(fn, days) == IF fn = "calculate_growth" THEN Min(3, days) ELSE 7

Records(h) == {h[i] : i \in 1..Len(h)}
Latest(h) == CHOOSE r \in Records(h) : \A q \in Records(h) : q.date <= r.date
Earliest(h) == CHOOSE r \in Records(h) : \A q \in Records(h) : r.date <= q.date
\* the records at or before the start of the window of `days` days
BeforeWindow(h, days) ==
    {r \in Records(h) : r.date <= Latest(h).date - days * DayUnits}
\* the anchor the design names: the latest record at or before the window start,
\* else the earliest record
AnchorOf(h, days) ==
    IF BeforeWindow(h, days) # {}
    THEN CHOOSE r \in BeforeWindow(h, days) :
             \A q \in BeforeWindow(h, days) : q.date <= r.date
    ELSE Earliest(h)
SpanDays(h) == (Latest(h).date - Earliest(h).date) \div DayUnits
BelowFloor(h, fn, days) ==
    BeforeWindow(h, days) = {} /\ SpanDays(h) < FloorOf(fn, days)

\* C4 as stated: on every history of at least 2 records end_subs is the count of
\* the latest record and growth_amount is end_subs minus the anchor's count,
\* also when the fallback anchor is below the reliability floor.
ClaimC4 ==
    (res.fn = "calculate_growth" /\ Len(hist[res.id]) >= 2) =>
        /\ res.out.end_subs = Latest(hist[res.id]).subscribers
        /\ res.out.growth_amount =
               res.out.end_subs - AnchorOf(hist[res.id], res.days).subscribers

\* C4 amended: that holds unless the fallback anchor is below the reliability
\* floor; there amount, rate, start and end count are all returned as 0 and
\* only data-days tells the span.
TheoremC4 ==
    (Computed /\ Len(hist[res.id]) >= 2) =>
        IF BelowFloor(hist[res.id], res.fn, res.days)
        THEN res.out = ZeroGrowth(SpanDays(hist[res.id]))
        ELSE /\ res.out.end_subs = Latest(hist[res.id]).subscribers
             /\ res.out.growth_amount =
                    res.out.end_subs - AnchorOf(hist[res.id], res.days).subscribers

\* a fallback anchor below the floor on a series whose counts grew
WitnessC4 ==
    /\ res.fn = "calculate_growth"
    /\ Len(hist[res.id]) >= 2
    /\ BelowFloor(hist[res.id], res.fn, res.days)
    /\ Latest(hist[res.id]).subscribers > Earliest(hist[res.id]).subscribers
    /\ res.out.data_days > 0

\* C5: on a history of fewer than 2 records (no file included) the calculator
\* returns growth amount 0, growth rate 0 and data-days 0.
TheoremC5 ==
    (Computed /\ Len(hist[res.id]) < 2) =>
        /\ res.out.growth_amount = 0
        /\ res.out.growth_rate.num = 0
        /\ res.out.data_days = 0

\* the calculator ran on a one-record series
WitnessC5 == res.fn = "calculate_growth" /\ Len(hist[res.id]) = 1

\* the series of the worked example: day 1, day 4, day 8
ExampleC6 == <<HistRecord(1 * DayUnits, 1000), HistRecord(4 * DayUnits, 1100),
               HistRecord(8 * DayUnits, 1300)>>

\* C6: when some record lies at or before latest - days, the anchor is the latest
\* such record, whatever the stored order, and data-days is days; on the example
\* with days = 7 the anchor is day 1, amount 300, rate 30, data-days 7.
TheoremC6 ==
    (/\ res.fn = "calculate_growth"
     /\ Len(hist[res.id]) >= 2
     /\ BeforeWindow(hist[res.id], res.days) # {}) =>
        /\ res.out.start_subs = AnchorOf(hist[res.id], res.days).subscribers
        /\ res.out.data_days = res.days
        /\ calculate_growth(Reverse(hist[res.id]), res.days) = res.out
        /\ (hist[res.id] = ExampleC6 /\ res.days = 7) =>
              /\ res.out.start_subs = 1000
              /\ res.out.growth_amount = 300
              /\ res.out.growth_rate.num = 30 * res.out.growth_rate.den
              /\ res.out.data_days = 7

\* the calculator ran with days = 7 on the example series
WitnessC6 ==
    /\ res.fn = "calculate_growth" /\ res.days = 7
    /\ hist[res.id] = ExampleC6
    /\ res.out.growth_amount = 300

(* ---------------- monitor update loop (monitor.py) ---------------- *)
Row(url, id, subs, short) ==
    [url |-> url, id |-> id, current_subs |-> subs, last_subs |-> 0, growth |-> 0,
     growth_rate |-> 0, update_time |-> 0, short_video |-> short]

\* the integer nearest to n / d for d > 0, an exact half going to the even side
RoundDiv(n, d) ==
    LET q == (2 * n + d) \div (2 * d)
    IN  IF (2 * n + d) % (2 * d) = 0 /\ q % 2 = 1 THEN q - 1 ELSE q

\* round(growth / prev_current * 100, 4) if prev_current > 0 else 0.0
growth_rate_of(growth, prev_current) ==
    IF prev_current > 0 THEN RoundDiv(growth * 100 * RateScale, prev_current) ELSE 0

\* parse_channel_id(url) when it succeeds: the channel the url names
parse_channel_id(url) == url

InitialSubs == {0, 10000}
FetchCounts == {10000, 10500}
UpdateRows(p) == {Row("a", "a", p, FALSE), Row("b", NoId, 0, FALSE),
                  Row("c", "c", 10000, TRUE)}
\* the tables of these three rows in every order
UpdateTables ==
    UNION {{t \in UpdateRows(p) \X UpdateRows(p) \X UpdateRows(p) :
                t[1] # t[2] /\ t[1] # t[3] /\ t[2] # t[3]} : p \in InitialSubs}

Outcome(i, what, c) ==
    [last EXCEPT !.outcome[i] = what, !.fetched[i] = c]

\* lines 33-42: the table is read and the loop starts
UpdateStart ==
    /\ pc = "idle"
    /\ pass < MaxPasses
    /\ snapshot # <<>>
    /\ df' = snapshot
    /\ idx' = 1
    /\ updated' = FALSE
    /\ pc' = "update"
    /\ pass' = pass + 1
    /\ last' = [op |-> "update_channel_data", before |-> snapshot, hist0 |-> hist,
                outcome |-> [i \in 1..Len(snapshot) |-> "pending"],
                fetched |-> [i \in 1..Len(snapshot) |-> 0]]
    /\ UNCHANGED <<hist, res, snapshot, archive, now, tmp, writer, collect>>

UpdateBegin == UpdateStart /\ UNCHANGED <<mtries, calls, collect>>

InLoop == pc = "update" /\ idx <= Len(df)
\* mutant: the short-form flag is not looked at
IsShort_ignored(row) == FALSE

IsShort(row) == FILTER_SHORT_VIDEOS /\ row.short_video

\* lines 49-51: a short-form row is skipped
SkipShort ==
    /\ InLoop
    /\ IsShort(df[idx])
    /\ idx' = idx + 1
    /\ last' = Outcome(idx, "short", 0)
    /\ UNCHANGED <<hist, res, snapshot, archive, now, pc, df, updated, pass,
                 mtries, calls, tmp, writer, collect>>

\* lines 54-60: the identifier is missing and parse_channel_id raises
ResolveFail ==
    /\ InLoop
    /\ ~IsShort(df[idx])
    /\ df[idx].id = NoId
    /\ idx' = idx + 1
    /\ last' = Outcome(idx, "resolve_failed", 0)
    /\ UNCHANGED <<hist, res, snapshot, archive, now, pc, df, updated, pass,
                 mtries, calls, tmp, writer, collect>>

\* the identifier the loop works with: the stored one, else the resolved one,
\* which line 57 writes into the frame
Resolved(row) == IF row.id = NoId THEN parse_channel_id(row.url) ELSE row.id

\* mutant: a failed fetch ends the pass instead of skipping the entity
FetchFail_abort ==
    /\ InLoop
    /\ ~IsShort(df[idx])
    /\ df' = [df EXCEPT ![idx].id = Resolved(df[idx])]
    /\ idx' = Len(df) + 1
    /\ last' = Outcome(idx, "fetch_failed", 0)
    /\ UNCHANGED <<hist, res, snapshot, archive, now, pc, updated, pass,
                 mtries, calls, tmp, writer, collect>>

\* lines 54-66: get_subs_via_api raises after its retries; the entity is skipped
FetchFail ==
    /\ InLoop
    /\ ~IsShort(df[idx])
    /\ df' = [df EXCEPT ![idx].id = Resolved(df[idx])]
    /\ idx' = idx + 1
    /\ last' = Outcome(idx, "fetch_failed", 0)
    /\ UNCHANGED <<hist, res, snapshot, archive, now, pc, updated, pass,
                 mtries, calls, tmp, writer, collect>>

\* mutant: last_subs keeps the stored last_subs
updated_row_keep_last(row, channel_id, current_subs, update_time) ==
    LET prev_current == row.current_subs
        growth       == current_subs - prev_current
    IN  [row EXCEPT !.id = channel_id,
                    !.current_subs = current_subs,
                    !.growth = growth,
                    !.growth_rate = growth_rate_of(growth, prev_current),
                    !.update_time = update_time]

\* lines 68-82: the row after a fetch that returned current_subs
updated_row(row, channel_id, current_subs, update_time) ==
    LET prev_current == row.current_subs
        growth       == current_subs - prev_current
    IN  [row EXCEPT !.id = channel_id,
                    !.last_subs = prev_current,
                    !.current_subs = current_subs,
                    !.growth = growth,
                    !.growth_rate = growth_rate_of(growth, prev_current),
                    !.update_time = update_time]

\* lines 68-93: the fetch returned c; the frame row is updated, the history
\* record appended under the current time, and the clock moves on (sleep)
Fetched(c) ==
    /\ InLoop
    /\ ~IsShort(df[idx])
    /\ LET channel_id == Resolved(df[idx])
       IN  /\ df' = [df EXCEPT ![idx] = updated_row(df[idx], channel_id, c, now)]
           /\ hist' = [hist EXCEPT
                          ![channel_id] = append_history(hist[channel_id], now, c)]
    /\ now' = now + 1
    /\ updated' = TRUE
    /\ idx' = idx + 1
    /\ last' = Outcome(idx, "ok", c)
    /\ UNCHANGED <<res, snapshot, archive, pc, pass, tmp, writer, collect>>

\* lines 54-93 with get_subs_via_api taken as one step that returns c
FetchOk(c) == Fetched(c) /\ UNCHANGED <<mtries, calls, collect>>

\* mutant: the frame is written at the end of every pass
UpdateEnd_always ==
    /\ pc = "update"
    /\ idx > Len(df)
    /\ snapshot' = df
    /\ pc' = "idle"
    /\ UNCHANGED <<hist, last, res, archive, now, df, idx, updated, pass,
                 mtries, calls, tmp, writer, collect>>

\* lines 95-97: the frame is written if any fetch succeeded
UpdateEnd ==
    /\ pc = "update"
    /\ idx > Len(df)
    /\ snapshot' = IF updated THEN df ELSE snapshot
    /\ pc' = "idle"
    /\ UNCHANGED <<hist, last, res, archive, now, df, idx, updated, pass,
                 mtries, calls, tmp, writer, collect>>

InitUpdate ==
    /\ InitIdle
    /\ hist = [i \in Ids |-> <<>>]
    /\ snapshot \in UpdateTables

NextUpdate ==
    \/ UpdateBegin
    \/ SkipShort
    \/ ResolveFail
    \/ FetchFail
    \/ \E c \in FetchCounts : FetchOk(c)
    \/ UpdateEnd

SpecUpdate == InitUpdate /\ [][NextUpdate]_vars

PassDone == pc = "idle" /\ last.op = "update_channel_data"
RowsOf(what) == {i \in 1..Len(last.before) : last.outcome[i] = what}

\* C7 as stated: after a pass every fetched row has last_subs = p, current_subs
\* = c, growth = c - p and growth_rate exactly (c - p) / p * 100 (0 when p = 0).
ClaimC7 ==
    PassDone => \A i \in RowsOf("ok") :
        LET p == last.before[i].current_subs
            c == last.fetched[i]
        IN  /\ snapshot[i].last_subs = p
            /\ snapshot[i].current_subs = c
            /\ snapshot[i].growth = c - p
            /\ IF p > 0 THEN snapshot[i].growth_rate * p = (c - p) * 100 * RateScale
                        ELSE snapshot[i].growth_rate = 0

\* C7 amended: growth_rate is that quotient rounded to 4 decimal places; and a
\* last_subs that changed in the pass is the prior current_subs.
TheoremC7 ==
    PassDone =>
        /\ \A i \in RowsOf("ok") :
              LET p == last.before[i].current_subs
                  c == last.fetched[i]
                  r == snapshot[i].growth_rate
              IN  /\ snapshot[i].last_subs = p
                  /\ snapshot[i].current_subs = c
                  /\ snapshot[i].growth = c - p
                  /\ IF p > 0
                     THEN /\ 2 * (r * p - (c - p) * 100 * RateScale) <= p
                          /\ 2 * ((c - p) * 100 * RateScale - r * p) <= p
                     ELSE r = 0
                  /\ (p = 10000 /\ c = 10500) =>
                        /\ snapshot[i].growth = 500
                        /\ r = 5 * RateScale
        /\ \A i \in 1..Len(snapshot) :
              snapshot[i].last_subs # last.before[i].last_subs =>
                  snapshot[i].last_subs = last.before[i].current_subs

\* a pass fetched 10000 for a row that stored 10500: the quotient has no exact
\* 4-decimal value
WitnessC7 ==
    /\ PassDone
    /\ \E i \in RowsOf("ok") :
          /\ last.before[i].current_subs = 10500
          /\ last.fetched[i] = 10000
          /\ snapshot[i].last_subs = 10500

Failed == RowsOf("resolve_failed") \cup RowsOf("fetch_failed")
HistoryKey(row) == IF row.id = NoId THEN parse_channel_id(row.url) ELSE row.id
AllProcessed == \A j \in 1..Len(last.before) : last.outcome[j] # "pending"

\* C10 as stated: a row whose resolution or fetch failed is left unchanged, like
\* its history series, and the pass goes on through every later row.
ClaimC10 ==
    PassDone =>
        /\ \A i \in Failed :
              /\ snapshot[i] = last.before[i]
              /\ hist[HistoryKey(last.before[i])] =
                     last.hist0[HistoryKey(last.before[i])]
        /\ AllProcessed

\* C10 amended: the counts, rates and update time of the failed row and its
\* history series are unchanged; the identifier may have been resolved and stored.
TheoremC10 ==
    PassDone =>
        /\ \A i \in Failed :
              /\ [snapshot[i] EXCEPT !.id = NoId] = [last.before[i] EXCEPT !.id = NoId]
              /\ snapshot[i].id \in {last.before[i].id,
                                     parse_channel_id(last.before[i].url)}
              /\ hist[HistoryKey(last.before[i])] =
                     last.hist0[HistoryKey(last.before[i])]
        /\ AllProcessed

\* a row failed and a later row was still fetched in the same pass
WitnessC10 ==
    /\ PassDone
    /\ \E i \in Failed : \E j \in RowsOf("ok") :
          /\ i < j
          /\ snapshot[j].current_subs = last.fetched[j]
          /\ snapshot[j].update_time > last.before[j].update_time

(* ---------------- inactive-channel pruning (monitor.py) ---------------- *)
\* lines 121-133: whether the loop marks an entity with stored series h
marks_inactive(h) ==
    LET history == get_channel_history(h, MIN_INACTIVE_DAYS + 1)
    IN  IF Len(history) < MIN_INACTIVE_DAYS THEN FALSE
        ELSE LET start == history[Len(history)].subscribers
                 end   == history[1].subscribers
             IN  IF start <= 0 THEN FALSE
                 ELSE (end - start) * ThresholdDen < ThresholdNum * start

\* lines 110-137: the identifiers marked, in table order
RECURSIVE remove_ids_of(_, _)
remove_ids_of(table, h) ==
    IF table = <<>> THEN <<>>
    ELSE LET row  == table[Len(table)]
             rest == remove_ids_of(SubSeq(table, 1, Len(table) - 1), h)
         IN  IF IsShort(row) \/ row.id = NoId THEN rest
             ELSE IF marks_inactive(h[row.id]) THEN Append(rest, row.id)
             ELSE rest

IdSet(ids) == {ids[i] : i \in 1..Len(ids)}

\* lines 101-139: the table is read and scanned; nothing is written yet
PruneScan ==
    /\ pc = "idle"
    /\ snapshot # <<>>
    /\ df' = snapshot
    /\ LET ids == remove_ids_of(snapshot, hist)
       IN  /\ last' = [op |-> "remove_inactive_channels", before |-> snapshot,
                       hist0 |-> hist, remove_ids |-> ids]
           /\ pc' = IF ids = <<>> THEN "idle" ELSE "prune_archive"
    /\ UNCHANGED <<hist, res, snapshot, archive, now, idx, updated, pass,
                 mtries, calls, tmp, writer, collect>>

\* mutant: the marked rows are not archived
PruneArchive_skipped ==
    /\ pc = "prune_archive"
    /\ pc' = "prune_rewrite"
    /\ UNCHANGED <<hist, last, res, snapshot, archive, now, df, idx, updated, pass,
                 mtries, calls, tmp, writer, collect>>

\* lines 141-144: the marked rows are appended to the inactive archive
PruneArchive ==
    /\ pc = "prune_archive"
    /\ archive' = archive \o SelectSeq(df, LAMBDA r : r.id \in IdSet(last.remove_ids))
    /\ pc' = "prune_rewrite"
    /\ UNCHANGED <<hist, last, res, snapshot, now, df, idx, updated, pass,
                 mtries, calls, tmp, writer, collect>>

\* lines 147-148: the table is rewritten without the marked rows
PruneRewrite ==
    /\ pc = "prune_rewrite"
    /\ df' = SelectSeq(df, LAMBDA r : r.id \notin IdSet(last.remove_ids))
    /\ snapshot' = df'
    /\ pc' = "prune_delete"
    /\ UNCHANGED <<hist, last, res, archive, now, idx, updated, pass, mtries, calls, tmp, writer,
                   collect>>

\* mutant: every history file is removed
PruneDelete_all ==
    /\ pc = "prune_delete"
    /\ hist' = [i \in Ids |-> <<>>]
    /\ pc' = "idle"
    /\ UNCHANGED <<last, res, snapshot, archive, now, df, idx, updated, pass,
                   mtries, calls, tmp, writer, collect>>

\* lines 151-157: the history files of the marked entities are removed
PruneDelete ==
    /\ pc = "prune_delete"
    /\ hist' = [i \in Ids |-> IF i \in IdSet(last.remove_ids) THEN <<>> ELSE hist[i]]
    /\ pc' = "idle"
    /\ UNCHANGED <<last, res, snapshot, archive, now, df, idx, updated, pass,
                 mtries, calls, tmp, writer, collect>>

PruneCounts == {0, 1000, 1010}

\* one successful poll of a live entity: line 85 of the update loop
Poll(id, c) ==
    /\ pc = "idle"
    /\ now <= MaxPolls
    /\ \E i \in 1..Len(snapshot) : snapshot[i].id = id /\ ~IsShort(snapshot[i])
    /\ hist' = [hist EXCEPT ![id] = append_history(hist[id], now, c)]
    /\ now' = now + 1
    /\ UNCHANGED <<last, res, snapshot, archive, pc, df, idx, updated, pass,
                 mtries, calls, tmp, writer, collect>>

InitPrune ==
    /\ InitIdle
    /\ hist = [i \in Ids |-> IF i = "c" THEN <<HistRecord(0, 1000)>> ELSE <<>>]
    /\ snapshot = <<Row("a", "a", 1000, FALSE), Row("b", NoId, 0, FALSE),
                    Row("c", "c", 1000, TRUE)>>

NextPrune ==
    \/ \E c \in PruneCounts : Poll("a", c)
    \/ PruneScan
    \/ PruneArchive
    \/ PruneRewrite
    \/ PruneDelete

SpecPrune == InitPrune /\ [][NextPrune]_vars

Scanned == last.op = "remove_inactive_channels"
Pruned == Scanned /\ pc = "idle"
Marked(id) == id \in IdSet(last.remove_ids)
\* a live, identified, long-form entity with at least MIN_INACTIVE_DAYS records
Eligible(id) ==
    /\ \E i \in 1..Len(last.before) :
          last.before[i].id = id /\ ~last.before[i].short_video
    /\ Len(last.hist0[id]) >= MIN_INACTIVE_DAYS
Window(id) == tail(last.hist0[id], MIN_INACTIVE_DAYS + 1)
Oldest(id) == Earliest(Window(id)).subscribers
Newest(id) == Latest(Window(id)).subscribers

\* C8: with start the oldest and end the newest count of the fetched window, an
\* entity is marked exactly when (end - start) / start < GROWTH_THRESHOLD; one
\* whose newest count exceeds the oldest by the threshold fraction is not marked.
ClaimC8 ==
    Scanned => \A id \in Ids \ {NoId} :
        (Eligible(id) /\ Oldest(id) > 0) =>
            (Marked(id) <=>
                (Newest(id) - Oldest(id)) * ThresholdDen < ThresholdNum * Oldest(id))

\* C9: an entity with exactly 7 records whose growth from the oldest to the
\* newest equals the threshold (1%) is not marked.
ClaimC9 ==
    Scanned => \A id \in Ids \ {NoId} :
        (/\ Eligible(id)
         /\ Len(last.hist0[id]) = 7
         /\ Oldest(id) > 0
         /\ (Newest(id) - Oldest(id)) * ThresholdDen = ThresholdNum * Oldest(id))
        => ~Marked(id)

(* ---------------- the stats-provider calls of one pass ---------------- *)
\* @retry(Exception, tries=4, ...) on get_subs_via_api
TRIES == 4
QUOTA == 403
\* the statuses a failing call carries: quota exhaustion, any other failure
FailStatuses == {QUOTA, 500}
QuotaCounts == {10500}

ApiCall(id, status) == [id |-> id, status |-> status]

\* a pass starts with no call issued
QuotaBegin == UpdateStart /\ mtries' = 0 /\ calls' = <<>>

\* mtries of f_retry: TRIES when the call for this entity starts
TriesLeft == IF mtries = 0 THEN TRIES ELSE mtries

\* one call of get_subs_via_api raises: it logs and re-raises whatever the
\* status; f_retry calls again while mtries > 1, and its last call lets the
\* exception reach the loop, which goes on to the next entity
ApiFail(status) ==
    /\ InLoop
    /\ ~IsShort(df[idx])
    /\ df' = [df EXCEPT ![idx].id = Resolved(df[idx])]
    /\ calls' = Append(calls, ApiCall(Resolved(df[idx]), status))
    /\ IF TriesLeft > 1
          THEN /\ mtries' = TriesLeft - 1
               /\ UNCHANGED <<idx, last, collect>>
          ELSE /\ mtries' = 0
               /\ idx' = idx + 1
               /\ last' = Outcome(idx, "fetch_failed", 0)
    /\ UNCHANGED <<hist, res, snapshot, archive, now, pc, updated, pass, tmp, writer,
                   collect>>

\* one call of get_subs_via_api returns c
ApiOk(c) ==
    /\ Fetched(c)
    /\ calls' = Append(calls, ApiCall(Resolved(df[idx]), 200))
    /\ mtries' = 0

InitQuota ==
    /\ InitIdle
    /\ hist = [i \in Ids |-> <<>>]
    /\ snapshot = <<Row("a", "a", 10000, FALSE), Row("c", "c", 10000, TRUE),
                    Row("b", NoId, 0, FALSE)>>

NextQuota ==
    \/ QuotaBegin
    \/ SkipShort
    \/ ResolveFail
    \/ \E status \in FailStatuses : ApiFail(status)
    \/ \E c \in QuotaCounts : ApiOk(c)
    \/ UpdateEnd

SpecQuota == InitQuota /\ [][NextQuota]_vars

\* C11: once a stats-provider call of a pass has failed with quota exhaustion
\* (403), no further call is issued in that pass, neither a retry nor a call
\* for a later entity; after other failures every entity is still processed.
ClaimC11 ==
    /\ \A i \in 1..Len(calls) : calls[i].status = QUOTA => i = Len(calls)
    /\ (PassDone /\ \A i \in 1..Len(calls) : calls[i].status # QUOTA)
          => \A i \in 1..Len(last.before) : last.outcome[i] # "pending"

(* ---------------- file writes and interruption (utils.py) ---------------- *)
\* A file is the sequence of its rows.  DataFrame.to_csv(path) opens the file
\* for writing, which empties it, and then writes the rows in order; the
\* process may be interrupted between any two of these steps.
WriteCounts == {10000, 10500}

Writing == writer.path # "none" /\ ~writer.interrupted
NotWriting == ~Writing

\* append_history line 170: history_df.to_csv(history_file) opens the history
\* file itself
HistoryOpen(id, c) ==
    /\ pc = "idle"
    /\ NotWriting
    /\ now <= MaxWrites
    /\ writer' = [path |-> "history", id |-> id, old |-> hist[id],
                  data |-> append_history(hist[id], now, c), interrupted |-> FALSE]
    /\ hist' = [hist EXCEPT ![id] = <<>>]
    /\ now' = now + 1
    /\ UNCHANGED <<last, res, snapshot, archive, pc, df, idx, updated, pass,
                   mtries, calls, tmp, collect>>

HistoryRow ==
    /\ Writing
    /\ writer.path = "history"
    /\ Len(hist[writer.id]) < Len(writer.data)
    /\ hist' = [hist EXCEPT ![writer.id] =
                    Append(@, writer.data[Len(hist[writer.id]) + 1])]
    /\ UNCHANGED <<last, res, snapshot, archive, now, pc, df, idx, updated, pass,
                   mtries, calls, tmp, writer, collect>>

HistoryClose ==
    /\ Writing
    /\ writer.path = "history"
    /\ Len(hist[writer.id]) = Len(writer.data)
    /\ writer' = NoWrite
    /\ UNCHANGED <<hist, last, res, snapshot, archive, now, pc, df, idx, updated,
                   pass, mtries, calls, tmp, collect>>

\* write_atomic_csv line 68: df.to_csv(tmp) opens the temporary file; here df
\* is the table with a fresh count in its first row
AtomicOpen(c) ==
    /\ pc = "idle"
    /\ NotWriting
    /\ now <= MaxWrites
    /\ snapshot # <<>>
    /\ writer' = [path |-> "snapshot", id |-> NoId, old |-> snapshot,
                  data |-> [snapshot EXCEPT
                               ![1] = updated_row(@, Resolved(@), c, now)],
                  interrupted |-> FALSE]
    /\ tmp' = <<>>
    /\ now' = now + 1
    /\ UNCHANGED <<hist, last, res, snapshot, archive, pc, df, idx, updated, pass,
                   mtries, calls, collect>>

AtomicRow ==
    /\ Writing
    /\ writer.path = "snapshot"
    /\ Len(tmp) < Len(writer.data)
    /\ tmp' = Append(tmp, writer.data[Len(tmp) + 1])
    /\ UNCHANGED <<hist, last, res, snapshot, archive, now, pc, df, idx, updated,
                   pass, mtries, calls, writer, collect>>

\* write_atomic_csv line 69: os.replace(tmp, path)
AtomicReplace ==
    /\ Writing
    /\ writer.path = "snapshot"
    /\ Len(tmp) = Len(writer.data)
    /\ snapshot' = tmp
    /\ tmp' = <<>>
    /\ writer' = NoWrite
    /\ UNCHANGED <<hist, last, res, archive, now, pc, df, idx, updated, pass,
                   mtries, calls, collect>>

\* the process is interrupted during a write; the files stay as they are
Interrupt ==
    /\ Writing
    /\ writer' = [writer EXCEPT !.interrupted = TRUE]
    /\ UNCHANGED <<hist, last, res, snapshot, archive, now, pc, df, idx, updated,
                   pass, mtries, calls, tmp, collect>>

InitWrite ==
    /\ InitIdle
    /\ hist = [i \in Ids |-> IF i = "a" THEN <<HistRecord(0, 10000)>> ELSE <<>>]
    /\ snapshot = <<Row("a", "a", 10000, FALSE), Row("b", "b", 10000, FALSE)>>

NextWrite ==
    \/ \E c \in WriteCounts : HistoryOpen("a", c)
    \/ HistoryRow
    \/ HistoryClose
    \/ \E c \in WriteCounts : AtomicOpen(c)
    \/ AtomicRow
    \/ AtomicReplace
    \/ Interrupt

SpecWrite == InitWrite /\ [][NextWrite]_vars

\* the content a reader finds in the file the writer was writing
FileRead == IF writer.path = "history" THEN hist[writer.id] ELSE snapshot

\* C12: the snapshot file and every history file are written through a
\* temporary file and an atomic replace, so after an interruption at any point
\* of a write a reader finds the complete old or the complete new content.
ClaimC12 ==
    writer.interrupted => FileRead \in {writer.old, writer.data}

(* ---------------- quality score (generate_report.py, monthly_report.py) ---- *)
\* a multiplier kept as the fraction num / den: 2, 0.2, 1, 5, 0.05
Mult(num, den) == [num |-> num, den |-> den]
ReportTypes == {"daily", "weekly", "monthly"}

growth_rate_multiplier(report_type) ==
    IF report_type = "weekly" THEN Mult(2, 1)
    ELSE IF report_type = "monthly" THEN Mult(1, 1)
    ELSE Mult(5, 1)

growth_amount_multiplier(report_type) ==
    IF report_type = "weekly" THEN Mult(1, 5)
    ELSE IF report_type = "monthly" THEN Mult(1, 1)
    ELSE Mult(1, 20)

\* rate * m > bound for a rate num / den with den > 0
RateAbove(rate, m, bound) == rate.num * m.num > bound * rate.den * m.den
\* amount * m > bound
AmountAbove(amount, m, bound) == amount * m.num > bound * m.den

\* mutant: the size bands include their lower edge
subs_score_inclusive(current_subs) ==
    IF current_subs >= 1000000 THEN 3
    ELSE IF current_subs >= 500000 THEN 2
    ELSE IF current_subs >= 100000 THEN 1
    ELSE 0

\* lines 186-192: subscriber scale
subs_score(current_subs) ==
    IF current_subs > 1000000 THEN 3
    ELSE IF current_subs > 500000 THEN 2
    ELSE IF current_subs > 100000 THEN 1
    ELSE 0

\* lines 194-203: growth rate
rate_score(growth_rate, m) ==
    IF RateAbove(growth_rate, m, 20) THEN 4
    ELSE IF RateAbove(growth_rate, m, 15) THEN 3
    ELSE IF RateAbove(growth_rate, m, 10) THEN 2
    ELSE IF RateAbove(growth_rate, m, 5) THEN 1
    ELSE 0

\* lines 205-212: growth amount
amount_score(growth_amount, m) ==
    IF AmountAbove(growth_amount, m, 10000) THEN 3
    ELSE IF AmountAbove(growth_amount, m, 5000) THEN 2
    ELSE IF AmountAbove(growth_amount, m, 1000) THEN 1
    ELSE 0

\* mutant: the score starts at 1 and is not capped
calculate_channel_quality_from_one(current_subs, growth_rate, growth_amount, report_type) ==
    1 + subs_score(current_subs)
      + rate_score(growth_rate, growth_rate_multiplier(report_type))
      + amount_score(growth_amount, growth_amount_multiplier(report_type))

\* calculate_channel_quality of generate_report.py
calculate_channel_quality(current_subs, growth_rate, growth_amount, report_type) ==
    Min(subs_score(current_subs)
          + rate_score(growth_rate, growth_rate_multiplier(report_type))
          + amount_score(growth_amount, growth_amount_multiplier(report_type)),
        10)

\* calculate_channel_quality of monthly_report.py: the same bands, no multiplier
calculate_channel_quality_monthly(current_subs, growth_rate, growth_amount) ==
    Min(subs_score(current_subs) + rate_score(growth_rate, Mult(1, 1))
          + amount_score(growth_amount, Mult(1, 1)),
        10)

ScoreSubs == {0, 99999, 100000, 100001, 500000, 500001, 1000000, 1000001}
\* rates in half percents: 0, 1, 2.5, 3, 5, 5.5, 10, 10.5, 15, 20, 20.5, 100 %
ScoreRates == {[num |-> n, den |-> 2] : n \in {0, 2, 5, 6, 10, 11, 20, 21, 30, 40, 41, 200}}
ScoreAmounts == {0, 1000, 1001, 5000, 5001, 10000, 10001, 20001, 25001, 50000,
                 50001, 100001, 200000, 200001}

\* the arguments of one call, before it is made
ScoreArgs(subs, rate, amount, report_type) ==
    [fn |-> "args", current_subs |-> subs, growth_rate |-> rate,
     growth_amount |-> amount, report_type |-> report_type, out |-> 0]

ScoreChannel ==
    /\ res.fn = "args"
    /\ res' = [res EXCEPT !.fn = "calculate_channel_quality",
                          !.out = calculate_channel_quality(res.current_subs,
                                      res.growth_rate, res.growth_amount,
                                      res.report_type)]
    /\ UNCHANGED <<hist, last, snapshot, archive, now, pc, df, idx, updated, pass,
                   mtries, calls, tmp, writer, collect>>

ScoreChannelMonthly ==
    /\ res.fn = "args"
    /\ res.report_type = "monthly"
    /\ res' = [res EXCEPT !.fn = "calculate_channel_quality_monthly",
                          !.out = calculate_channel_quality_monthly(
                                      res.current_subs, res.growth_rate,
                                      res.growth_amount)]
    /\ UNCHANGED <<hist, last, snapshot, archive, now, pc, df, idx, updated, pass,
                   mtries, calls, tmp, writer, collect>>

InitScore ==
    /\ hist = [i \in Ids |-> <<>>]
    /\ snapshot = <<>>
    /\ last = NoCall
    /\ archive = <<>>
    /\ now = 1
    /\ pc = "idle"
    /\ df = <<>>
    /\ idx = 0
    /\ updated = FALSE
    /\ pass = 0
    /\ mtries = 0
    /\ calls = <<>>
    /\ tmp = <<>>
    /\ writer = NoWrite
    /\ collect = <<>>
    /\ \E subs \in ScoreSubs, rate \in ScoreRates, amount \in ScoreAmounts,
          report_type \in ReportTypes :
          res = ScoreArgs(subs, rate, amount, report_type)

NextScore == ScoreChannel \/ ScoreChannelMonthly

SpecScore == InitScore /\ [][NextScore]_vars

Scored == res.fn \in {"calculate_channel_quality", "calculate_channel_quality_monthly"}

ScaleComponent ==
    res.out - calculate_channel_quality(0, res.growth_rate, res.growth_amount,
                                        res.report_type)

\* C14 as stated: 0 below 100,000, 1 from 100,000 up to 500,000, 2 from
\* 500,000 up to 1,000,000, 3 from 1,000,000 on.
ClaimC14 ==
    (res.fn = "calculate_channel_quality") =>
        ScaleComponent = (IF res.current_subs >= 1000000 THEN 3
                          ELSE IF res.current_subs >= 500000 THEN 2
                          ELSE IF res.current_subs >= 100000 THEN 1
                          ELSE 0)

\* C14, amended: the subscriber-scale component is 0 for counts up to 100,000,
\* 1 for counts above 100,000 up to 500,000, 2 for counts above 500,000 up to
\* 1,000,000, and 3 for counts above 1,000,000.
TheoremC14 ==
    (res.fn = "calculate_channel_quality") =>
        ScaleComponent = (IF res.current_subs > 1000000 THEN 3
                          ELSE IF res.current_subs > 500000 THEN 2
                          ELSE IF res.current_subs > 100000 THEN 1
                          ELSE 0)

\* a count of exactly 1,000,000 was scored
WitnessC14 ==
    /\ res.fn = "calculate_channel_quality"
    /\ res.current_subs = 1000000
    /\ ScaleComponent = 2

(* ---------------- report generation (generate_report.py) ---------------- *)
\* lines 80-94: the base thresholds of a report type (rate in percent)
min_growth_rate(report_type) ==
    IF report_type = "weekly" THEN 3 ELSE IF report_type = "monthly" THEN 5 ELSE 1
min_growth_amount(report_type) ==
    IF report_type = "weekly" THEN 200 ELSE IF report_type = "monthly" THEN 500 ELSE 50
\* mutant: the monthly report asks for six days of data
min_data_days_six(report_type) ==
    IF report_type = "weekly" THEN 3 ELSE IF report_type = "monthly" THEN 6 ELSE 1

min_data_days(report_type) ==
    IF report_type = "weekly" THEN 3 ELSE IF report_type = "monthly" THEN 7 ELSE 1
min_subs == 5000
max_subs == 500000

\* growth_rate >= bound for a rate num / den
RateAtLeast(rate, bound) == rate.num >= bound * rate.den

\* the four labels: "🔥 高潜力", "⭐ 优质增长", "📈 稳定增长", "✅ 一般增长"
HIGH == "high-potential"
QUALITY == "quality-growth"
STABLE == "stable-growth"
GENERAL == "general-growth"

\* mutant: the second tier asks for a score of at most 6
priority_of_low_score(growth_rate, growth_amount, quality_score, report_type) ==
    LET r == min_growth_rate(report_type)
        a == min_growth_amount(report_type)
    IN  IF /\ RateAbove(growth_rate, Mult(1, 1), r * 3)
           /\ growth_amount > a * 10 /\ quality_score >= 8 THEN HIGH
        ELSE IF /\ RateAbove(growth_rate, Mult(1, 1), r * 2)
                /\ growth_amount > a * 5 /\ quality_score <= 6 THEN QUALITY
        ELSE IF /\ RateAbove(growth_rate, Mult(2, 1), r * 3)
                /\ growth_amount > a * 2 THEN STABLE
        ELSE GENERAL

\* mutant: the third tier is tested first
priority_of_stable_first(growth_rate, growth_amount, quality_score, report_type) ==
    LET r == min_growth_rate(report_type)
        a == min_growth_amount(report_type)
    IN  IF /\ RateAbove(growth_rate, Mult(2, 1), r * 3)
           /\ growth_amount > a * 2 THEN STABLE
        ELSE IF /\ RateAbove(growth_rate, Mult(1, 1), r * 3)
                /\ growth_amount > a * 10 /\ quality_score >= 8 THEN HIGH
        ELSE IF /\ RateAbove(growth_rate, Mult(1, 1), r * 2)
                /\ growth_amount > a * 5 /\ quality_score >= 6 THEN QUALITY
        ELSE GENERAL

\* lines 128-135: the tier of an included entity (rate > r * 1.5 is 2 rate > 3 r)
priority_of(growth_rate, growth_amount, quality_score, report_type) ==
    LET r == min_growth_rate(report_type)
        a == min_growth_amount(report_type)
    IN  IF /\ RateAbove(growth_rate, Mult(1, 1), r * 3)
           /\ growth_amount > a * 10 /\ quality_score >= 8 THEN HIGH
        ELSE IF /\ RateAbove(growth_rate, Mult(1, 1), r * 2)
                /\ growth_amount > a * 5 /\ quality_score >= 6 THEN QUALITY
        ELSE IF /\ RateAbove(growth_rate, Mult(2, 1), r * 3)
                /\ growth_amount > a * 2 THEN STABLE
        ELSE GENERAL

\* mutant: the size window is not tested
included_any_size(row, g, report_type) ==
    /\ row.id # NoId
    /\ ~row.short_video
    /\ g.data_days >= min_data_days(report_type)
    /\ RateAtLeast(g.growth_rate, min_growth_rate(report_type))
    /\ g.growth_amount >= min_growth_amount(report_type)

\* mutant: the end count is not capped
included_uncapped(row, g, report_type) ==
    /\ row.id # NoId
    /\ ~row.short_video
    /\ g.data_days >= min_data_days(report_type)
    /\ RateAtLeast(g.growth_rate, min_growth_rate(report_type))
    /\ g.growth_amount >= min_growth_amount(report_type)
    /\ min_subs <= g.end_subs

\* lines 101-120: whether a table row with growth g reaches the report
included(row, g, report_type) ==
    /\ row.id # NoId
    /\ ~row.short_video
    /\ g.data_days >= min_data_days(report_type)
    /\ RateAtLeast(g.growth_rate, min_growth_rate(report_type))
    /\ g.growth_amount >= min_growth_amount(report_type)
    /\ min_subs <= g.end_subs /\ g.end_subs <= max_subs

\* lines 125-148: the report row of an included entity
report_row(row, g, report_type) ==
    LET quality_score == calculate_channel_quality(g.end_subs, g.growth_rate,
                                                   g.growth_amount, report_type)
    IN  [priority |-> priority_of(g.growth_rate, g.growth_amount, quality_score,
                                  report_type),
         url |-> row.url, start_subs |-> g.start_subs, end_subs |-> g.end_subs,
         growth_amount |-> g.growth_amount, growth_rate |-> g.growth_rate,
         quality_score |-> quality_score, data_days |-> g.data_days]

\* the growth the loop computes for a row with an identifier
growth_of(row, h, days) ==
    IF row.id = NoId THEN ZeroGrowth(0)
    ELSE calculate_growth(get_channel_history(h[row.id], 0), days)

\* lines 96-148: report_data, in table order
report_data(table, h, days, report_type) ==
    LET kept == SelectSeq(table,
                    LAMBDA row : included(row, growth_of(row, h, days), report_type))
    IN  [i \in 1..Len(kept) |->
            report_row(kept[i], growth_of(kept[i], h, days), report_type)]

\* the first code point of a label: U+1F525, U+2B50, U+1F4C8, U+2705; pandas
\* orders the label strings by their code points
label_code(priority) ==
    IF priority = HIGH THEN 128293
    ELSE IF priority = QUALITY THEN 11088
    ELSE IF priority = STABLE THEN 128200
    ELSE 9989

\* x sorts strictly before y under (priority ascending, quality score descending)
SortsBefore(x, y) ==
    \/ label_code(x.priority) < label_code(y.priority)
    \/ /\ label_code(x.priority) = label_code(y.priority)
       /\ x.quality_score > y.quality_score

RECURSIVE InsertReportRow(_, _)
InsertReportRow(s, x) ==
    IF s = <<>> THEN <<x>>
    ELSE IF SortsBefore(x, Head(s)) THEN <<x>> \o s
    ELSE <<Head(s)>> \o InsertReportRow(Tail(s), x)

\* line 154: report_df.sort_values(['优先级', '质量评分'], ascending=[True, False]);
\* rows with equal keys keep their order
RECURSIVE sort_report(_)
sort_report(rows) ==
    IF rows = <<>> THEN <<>>
    ELSE InsertReportRow(sort_report(SubSeq(rows, 1, Len(rows) - 1)), rows[Len(rows)])

\* the rows of the report artifact of generate_report(days, report_type); no
\* artifact, here the empty sequence, when no entity is included
generate_report(table, h, days, report_type) ==
    sort_report(report_data(table, h, days, report_type))

\* lines 258-260: the recommendation is the head of the artifact
get_top_recommendations(report_df) == head(report_df, 5)

\* two polls a week apart (day 0, day 7), or two days apart (day 5, day 7)
WeekSeries(s0, s1) == <<HistRecord(0, s0), HistRecord(7 * DayUnits, s1)>>
ShortSeries(s0, s1) == <<HistRecord(5 * DayUnits, s0), HistRecord(7 * DayUnits, s1)>>
ReportSeries ==
    {WeekSeries(p[1], p[2]) :
        p \in {<<10000, 10100>>, <<10000, 10400>>, <<10000, 10500>>,
               <<10000, 20000>>, <<200000, 222000>>, <<200000, 230000>>,
               <<340000, 400000>>, <<300000, 400000>>, <<450000, 600000>>,
               <<4000, 4900>>}}
      \cup {ShortSeries(10000, 12000), <<HistRecord(0, 10000)>>}

\* the days and report types the reports are run with
ReportRuns == {<<1, "daily">>, <<7, "weekly">>, <<30, "monthly">>}

GenerateReport(days, report_type) ==
    /\ pc = "idle"
    /\ snapshot # <<>>
    /\ res' = [fn |-> "generate_report", days |-> days, report_type |-> report_type,
               rows |-> generate_report(snapshot, hist, days, report_type)]
    /\ UNCHANGED <<hist, last, snapshot, archive, now, pc, df, idx, updated, pass,
                   mtries, calls, tmp, writer, collect>>

InitReport ==
    /\ InitIdle
    /\ \E ha \in ReportSeries, hb \in ReportSeries :
          hist = [i \in Ids |-> IF i = "a" THEN ha ELSE IF i = "b" THEN hb
                                ELSE WeekSeries(340000, 400000)]
    /\ \E short \in BOOLEAN :
          snapshot = <<Row("a", "a", 0, FALSE), Row("b", "b", 0, FALSE),
                       Row("c", "c", 0, short), Row("d", NoId, 0, FALSE)>>

NextReport == \E run \in ReportRuns : GenerateReport(run[1], run[2])

SpecReport == InitReport /\ [][NextReport]_vars

Reported == res.fn = "generate_report"
ReportRows == {res.rows[i] : i \in 1..Len(res.rows)}
Tiers == {HIGH, QUALITY, STABLE, GENERAL}
TierRank(priority) ==
    IF priority = HIGH THEN 4 ELSE IF priority = QUALITY THEN 3
    ELSE IF priority = STABLE THEN 2 ELSE 1
\* the growth the report run computed for the entity of a table row
RunGrowth(row) == calculate_growth(hist[row.id], res.days)
\* rate > k / d times the base rate, amount > k times the base amount
RateOver(rate, k, d) ==
    rate.num * d > k * min_growth_rate(res.report_type) * rate.den
AmountOver(amount, k) == amount > k * min_growth_amount(res.report_type)
\* the table rows that pass the inclusion filter of the run
PassesFilter(row) ==
    /\ row.id # NoId
    /\ ~row.short_video
    /\ LET g == RunGrowth(row)
       IN  /\ g.growth_rate.num >= min_growth_rate(res.report_type) * g.growth_rate.den
           /\ g.growth_amount >= min_growth_amount(res.report_type)
           /\ g.end_subs \in 5000..500000
           /\ g.data_days >= (IF res.report_type = "daily" THEN 1
                               ELSE IF res.report_type = "weekly" THEN 3 ELSE 7)
TableRows == {snapshot[i] : i \in 1..Len(snapshot)}
RowsFor(row) == {i \in 1..Len(res.rows) : res.rows[i].url = row.url}

\* C15: tiering in generate_report is a total first-match function: every
\* entity passing the inclusion filter gets exactly one of the four tiers:
\* high-potential iff rate > 3x base and amount > 10x base and score >= 8,
\* otherwise quality-growth iff rate > 2x base and amount > 5x base and
\* score >= 6, otherwise stable-growth iff rate > 1.5x base and amount > 2x
\* base, otherwise general-growth.
TheoremC15 ==
    Reported =>
        /\ \A row \in TableRows : PassesFilter(row) => Cardinality(RowsFor(row)) = 1
        /\ \A r \in ReportRows :
              /\ r.priority \in Tiers
              /\ r.priority =
                    (IF /\ RateOver(r.growth_rate, 3, 1)
                        /\ AmountOver(r.growth_amount, 10)
                        /\ r.quality_score >= 8 THEN HIGH
                     ELSE IF /\ RateOver(r.growth_rate, 2, 1)
                             /\ AmountOver(r.growth_amount, 5)
                             /\ r.quality_score >= 6 THEN QUALITY
                     ELSE IF /\ RateOver(r.growth_rate, 3, 2)
                             /\ AmountOver(r.growth_amount, 2) THEN STABLE
                     ELSE GENERAL)

\* a report holding a high-potential row and a row of another tier
WitnessC15 ==
    /\ Reported
    /\ \E r, q \in ReportRows : r.priority = HIGH /\ q.priority = STABLE

RECURSIVE Gcd(_, _)
Gcd(m, n) == IF n = 0 THEN m ELSE Gcd(n, m % n)
\* a rate num / den >= 0 in lowest terms
Lowest(rate) ==
    LET g == Gcd(rate.num, rate.den)
    IN  [num |-> rate.num \div g, den |-> rate.den \div g]
RateGeq(p, q) == Lowest(p).num * Lowest(q).den >= Lowest(q).num * Lowest(p).den

AtLeast(x, y) ==
    /\ RateGeq(x.growth_rate, y.growth_rate)
    /\ x.growth_amount >= y.growth_amount
    /\ x.quality_score >= y.quality_score

\* C16: within one report, a row whose rate, amount and score are each at
\* least those of another row never has a strictly lower tier.
TheoremC16 ==
    Reported =>
        \A x, y \in ReportRows :
            AtLeast(x, y) => TierRank(x.priority) >= TierRank(y.priority)

\* two rows of one report, one at least the other in rate, amount and score
\* and in a strictly higher tier
WitnessC16 ==
    /\ Reported
    /\ \E x, y \in ReportRows :
          /\ AtLeast(x, y)
          /\ x.priority = QUALITY /\ y.priority = STABLE

\* C17: a table row with an identifier produces a report row if and only if
\* rate >= base rate, amount >= base amount, end count within [5000, 500000],
\* data-days >= the period minimum (1 daily, 3 weekly, 7 monthly) and the
\* entity is not flagged short-form.
TheoremC17 ==
    Reported =>
        \A row \in TableRows :
            row.id # NoId => (RowsFor(row) # {} <=> PassesFilter(row))

\* a report that includes one entity and leaves out another for its size alone
WitnessC17 ==
    /\ Reported
    /\ RowsFor(snapshot[1]) # {}
    /\ RowsFor(snapshot[2]) = {}
    /\ RunGrowth(snapshot[2]).end_subs > 500000
    /\ RunGrowth(snapshot[2]).growth_amount >= min_growth_amount(res.report_type)

\* C18: the rows of the artifact are ordered by tier rank, high-potential
\* first, then quality-growth, stable-growth, general-growth, and within one
\* tier by descending quality score.
ClaimC18 ==
    Reported =>
        \A i, j \in 1..Len(res.rows) :
            i < j =>
                \/ TierRank(res.rows[i].priority) > TierRank(res.rows[j].priority)
                \/ /\ res.rows[i].priority = res.rows[j].priority
                   /\ res.rows[i].quality_score >= res.rows[j].quality_score

(* ---------------- the effect of a pruning run ---------------- *)
\* the step that ends remove_inactive_channels: the history deletion, or the
\* scan itself when it marked nothing
PruneCompletes ==
    /\ pc' = "idle"
    /\ last'.op = "remove_inactive_channels"
    /\ pc = "prune_delete" \/ (pc = "idle" /\ now' = now)

RowSet(table) == {table[i] : i \in 1..Len(table)}

PruneEffect ==
    \A row \in RowSet(last.before) :
        IF Marked(row.id)
        THEN /\ row \in RowSet(archive)
             /\ \A r \in RowSet(snapshot) : r.id # row.id
             /\ get_channel_history(hist[row.id], 0) = <<>>
        ELSE /\ row \in RowSet(snapshot)
             /\ row.id # NoId => hist[row.id] = last.hist0[row.id]

\* C19: when remove_inactive_channels completes, every entity it marked has
\* its row in the inactive archive, no row in the live table and no history;
\* every other entity keeps its row and its history unchanged, and the live
\* table holds nothing else.
TheoremC19 ==
    [][PruneCompletes =>
          (PruneEffect /\ RowSet(snapshot) \subseteq RowSet(last.before))']_vars

\* a run that marked an entity has completed and left the other rows
WitnessC19 ==
    /\ Pruned
    /\ last.remove_ids = <<"a">>
    /\ hist["a"] = <<>> /\ last.hist0["a"] # <<>>
    /\ hist["c"] # <<>>
    /\ Len(snapshot) = 2
    /\ archive # <<>>

(* ---------------- filling the tables (utils.py) ---------------- *)
\* the id column of a table
channel_ids(table) == {table[i].id : i \in 1..Len(table)}

\* append_channel_to_csv(channel_data, csv_file, check_duplicate) on the table
\* stored in csv_file: the duplicate test needs a non-empty id in channel_data
append_channel_to_csv(table, channel_data, check_duplicate) ==
    IF /\ table # <<>>
       /\ check_duplicate
       /\ channel_data.id # NoId
       /\ channel_data.id \in channel_ids(table)
    THEN table
    ELSE Append(table, Row(channel_data.url, channel_data.id,
                           channel_data.current_subs, channel_data.short_video))

\* add_to_monitor_if_long_video(channel_data) on the monitor table
add_to_monitor_if_long_video(table, channel_data) ==
    IF ~channel_data.short_video
    THEN append_channel_to_csv(table, channel_data, TRUE)
    ELSE table

\* sync_long_videos_to_monitor() on the collect and the monitor table: the
\* long-form collect rows whose id the monitor table lacks are appended
\* without a further test
sync_long_videos_to_monitor(collect_df, monitor_df) ==
    IF collect_df = <<>> THEN monitor_df
    ELSE LET long_video_df == SelectSeq(collect_df, LAMBDA r : ~r.short_video)
             existing_ids  == channel_ids(monitor_df)
             new_channels  == IF monitor_df # <<>>
                              THEN SelectSeq(long_video_df,
                                             LAMBDA r : r.id \notin existing_ids)
                              ELSE long_video_df
         IN  monitor_df \o new_channels

\* channel data handed to the writers: a channel given with its id, the same
\* channel given by its url alone, a short-form channel
ChannelData ==
    {[url |-> "a", id |-> "a", current_subs |-> 10000, short_video |-> FALSE],
     [url |-> "a", id |-> NoId, current_subs |-> 0, short_video |-> FALSE],
     [url |-> "b", id |-> "b", current_subs |-> 10000, short_video |-> TRUE]}
TableCounts == {10000, 10500}

\* collect_from_playground lines 132-150: a channel found with its id goes to
\* the collect table and, if long-form, to the monitor table
CollectChannel(channel_data) ==
    /\ pc = "idle"
    /\ channel_data.id # NoId
    /\ Len(collect) < MaxCollect
    /\ Len(snapshot) < MaxRows
    /\ collect' = append_channel_to_csv(collect, channel_data, TRUE)
    /\ snapshot' = add_to_monitor_if_long_video(snapshot, channel_data)
    /\ UNCHANGED <<hist, last, res, archive, now, pc, df, idx, updated, pass,
                   mtries, calls, tmp, writer>>

\* append_channel_to_csv(channel_data, MONITOR_FILE), duplicate test on
AppendMonitor(channel_data) ==
    /\ pc = "idle"
    /\ Len(snapshot) < MaxRows
    /\ snapshot' = append_channel_to_csv(snapshot, channel_data, TRUE)
    /\ snapshot' # snapshot
    /\ UNCHANGED <<hist, last, res, archive, now, pc, df, idx, updated, pass,
                   mtries, calls, tmp, writer, collect>>

SyncToMonitor ==
    /\ pc = "idle"
    /\ snapshot' = sync_long_videos_to_monitor(collect, snapshot)
    /\ snapshot' # snapshot
    /\ Len(snapshot') <= MaxRows
    /\ UNCHANGED <<hist, last, res, archive, now, pc, df, idx, updated, pass,
                   mtries, calls, tmp, writer, collect>>

\* both tables empty; channel "a" has a week of level history
InitTables ==
    /\ InitIdle
    /\ snapshot = <<>>
    /\ hist = [i \in Ids |->
                  IF i = "a" THEN [k \in 1..MIN_INACTIVE_DAYS |->
                                      HistRecord(k - MIN_INACTIVE_DAYS, 10000)]
                  ELSE <<>>]

NextTables ==
    \/ SyncToMonitor
    \/ \E channel_data \in ChannelData : CollectChannel(channel_data)
    \/ \E channel_data \in ChannelData : AppendMonitor(channel_data)
    \/ UpdateBegin
    \/ SkipShort
    \/ ResolveFail
    \/ FetchFail
    \/ \E c \in TableCounts : FetchOk(c)
    \/ UpdateEnd
    \/ PruneScan
    \/ PruneArchive
    \/ PruneRewrite
    \/ PruneDelete

SpecTables == InitTables /\ [][NextTables]_vars

\* C20: after any sequence of append_channel_to_csv (duplicate test on),
\* add_to_monitor_if_long_video, sync_long_videos_to_monitor,
\* update_channel_data and remove_inactive_channels, no two rows of the
\* snapshot table carry the same non-empty identifier.
ClaimC20 ==
    \A i, j \in 1..Len(snapshot) :
        (i # j /\ snapshot[i].id = snapshot[j].id) => snapshot[i].id = NoId

(* ---------------- the retry decorator (utils.py) ---------------- *)
\* One call of a function wrapped by retry(tries, delay, backoff).  The frame
\* of f_retry is res: its arguments, mdelay and how the call ended; mtries is
\* the variable of that name.  calls logs the invocations of f, numbered, and
\* the sleeps; a sleep lasts base + jitter / JitterUnits seconds, the jitter
\* being random.random() * 0.5.
JitterUnits == 10
Jitters == {0, 4}
RetryDelays == {1, 2}
RetryBackoffs == {2, 3}

Invocation(k, ok) == [kind |-> "call", k |-> k, ok |-> ok]
Sleep(base, jitter) == [kind |-> "sleep", base |-> base, jitter |-> jitter]
InvocationsIn(log) == SelectSeq(log, LAMBDA e : e.kind = "call")
SleepsIn(log) == SelectSeq(log, LAMBDA e : e.kind = "sleep")

RetryRunning == res.fn = "f_retry" /\ res.status = "running"

\* lines 48-50 and 57: an invocation of f returns; f_retry returns its result
RetryReturn ==
    /\ RetryRunning
    /\ LET k == Len(InvocationsIn(calls)) + 1
       IN  /\ calls' = Append(calls, Invocation(k, TRUE))
           /\ res' = [res EXCEPT !.status = "returned", !.result = k]
    /\ UNCHANGED <<hist, last, snapshot, archive, now, pc, df, idx, updated, pass,
                   mtries, tmp, writer, collect>>

\* mutant: the wait is not multiplied
RetryAgain_flat(jitter) ==
    /\ RetryRunning
    /\ mtries > 1
    /\ calls' = calls \o <<Invocation(Len(InvocationsIn(calls)) + 1, FALSE),
                            Sleep(res.mdelay, jitter)>>
    /\ mtries' = mtries - 1
    /\ UNCHANGED <<hist, last, res, snapshot, archive, now, pc, df, idx, updated,
                   pass, tmp, writer, collect>>

\* lines 48-56: an invocation inside the loop raises; f_retry sleeps
\* mdelay + jitter, then mtries -= 1 and mdelay *= backoff
RetryAgain(jitter) ==
    /\ RetryRunning
    /\ mtries > 1
    /\ calls' = calls \o <<Invocation(Len(InvocationsIn(calls)) + 1, FALSE),
                            Sleep(res.mdelay, jitter)>>
    /\ mtries' = mtries - 1
    /\ res' = [res EXCEPT !.mdelay = res.mdelay * res.backoff]
    /\ UNCHANGED <<hist, last, snapshot, archive, now, pc, df, idx, updated, pass,
                   tmp, writer, collect>>

\* line 57: the invocation after the loop raises; the exception leaves f_retry
RetryRaise ==
    /\ RetryRunning
    /\ mtries <= 1
    /\ LET k == Len(InvocationsIn(calls)) + 1
       IN  /\ calls' = Append(calls, Invocation(k, FALSE))
           /\ res' = [res EXCEPT !.status = "raised", !.result = k]
    /\ UNCHANGED <<hist, last, snapshot, archive, now, pc, df, idx, updated, pass,
                   mtries, tmp, writer, collect>>

\* line 47: mtries, mdelay = tries, delay
InitRetry ==
    /\ hist = [i \in Ids |-> <<>>]
    /\ snapshot = <<>>
    /\ last = NoCall
    /\ archive = <<>>
    /\ now = 1
    /\ pc = "idle"
    /\ df = <<>>
    /\ idx = 0
    /\ updated = FALSE
    /\ pass = 0
    /\ calls = <<>>
    /\ tmp = <<>>
    /\ writer = NoWrite
    /\ collect = <<>>
    /\ \E tries \in 1..MaxTries, delay \in RetryDelays, backoff \in RetryBackoffs :
          /\ mtries = tries
          /\ res = [fn |-> "f_retry", tries |-> tries, delay |-> delay,
                    backoff |-> backoff, mdelay |-> delay, status |-> "running",
                    result |-> 0]

NextRetry ==
    \/ RetryReturn
    \/ \E jitter \in Jitters : RetryAgain(jitter)
    \/ RetryRaise

SpecRetry == InitRetry /\ [][NextRetry]_vars

RECURSIVE Pow(_, _)
Pow(b, k) == IF k = 0 THEN 1 ELSE b * Pow(b, k - 1)

\* C21: f is invoked at most tries times per call; the call returns the
\* result of the first invocation that succeeds and invokes no more; the k-th
\* wait is delay * backoff^(k-1) plus a jitter below 0.5 s; when every one of
\* the tries invocations fails, the exception of the last one propagates;
\* with tries = 4, delay = 1, backoff = 2 the waits are based on 1, 2, 4.
TheoremC21 ==
    (res.fn = "f_retry") =>
        LET invocations == InvocationsIn(calls)
            sleeps      == SleepsIn(calls)
        IN  /\ Len(invocations) <= res.tries
            /\ \A k \in 1..Len(invocations) :
                  invocations[k].ok =>
                      /\ k = Len(invocations)
                      /\ res.status = "returned" /\ res.result = k
            /\ \A k \in 1..Len(sleeps) :
                  /\ sleeps[k].base = res.delay * Pow(res.backoff, k - 1)
                  /\ sleeps[k].jitter * 2 < JitterUnits
            /\ res.status = "returned" =>
                  /\ invocations # <<>>
                  /\ invocations[Len(invocations)].ok
            /\ res.status = "raised" =>
                  /\ Len(invocations) = res.tries
                  /\ \A k \in 1..Len(invocations) : ~invocations[k].ok
                  /\ res.result = res.tries
            /\ (res.tries = 4 /\ res.delay = 1 /\ res.backoff = 2) =>
                  \A k \in 1..Len(sleeps) : sleeps[k].base = <<1, 2, 4>>[k]

\* the wrapper of get_subs_via_api gave up after four invocations
WitnessC21 ==
    /\ res.fn = "f_retry"
    /\ res.tries = 4 /\ res.delay = 1 /\ res.backoff = 2
    /\ res.status = "raised"
    /\ Len(SleepsIn(calls)) = 3

(* ---------------- retention of the newest timestamps ---------------- *)
\* the n greatest elements of a set of timestamps
RECURSIVE Greatest(_, _)
Greatest(S, n) ==
    IF n = 0 \/ S = {} THEN {}
    ELSE LET m == CHOOSE d \in S : \A e \in S : e <= d
         IN  {m} \cup Greatest(S \ {m}, n - 1)

Ascending(h) == \A i \in 1..Len(h) - 1 : h[i].date < h[i + 1].date

\* C22: whatever record is appended, the persisted series holds exactly the
\* MAX_HISTORY_RECORDS greatest of the distinct timestamps of the old series
\* and the new record; a new record older than every record of a full series
\* is itself dropped; the persisted series is in ascending timestamp order.
TheoremC22 ==
    /\ Ascending(hist["a"])
    /\ \A t \in Times : \A c \in Counts :
          LET after == append_history(hist["a"], t, c)
              all   == Dates(hist["a"]) \cup {t}
          IN  /\ Dates(after) = Greatest(all, MAX_HISTORY_RECORDS)
              /\ Len(after) = Cardinality(Dates(after))
              /\ Ascending(after)
              /\ ( /\ Len(hist["a"]) = MAX_HISTORY_RECORDS
                   /\ \A d \in Dates(hist["a"]) : t < d )
                    => after = hist["a"]

\* a full series, and a record older than all of it whose append is dropped
WitnessC22 ==
    /\ Len(hist["a"]) = MAX_HISTORY_RECORDS
    /\ \E t \in Times :
          /\ \A d \in Dates(hist["a"]) : t < d
          /\ append_history(hist["a"], t, 1000) = hist["a"]

\* C23: on a history of at least 2 records none of which lies at or before
\* latest - days, calculate_growth returns as data-days the whole days between
\* the earliest and the latest record, and the start count and growth amount it
\* returns (at or above the reliability floor) are those of the earliest record.
TheoremC23 ==
    (/\ res.fn = "calculate_growth"
     /\ Len(hist[res.id]) >= 2
     /\ BeforeWindow(hist[res.id], res.days) = {}) =>
        /\ res.out.data_days = SpanDays(hist[res.id])
        /\ ~BelowFloor(hist[res.id], res.fn, res.days) =>
              /\ res.out.start_subs = Earliest(hist[res.id]).subscribers
              /\ res.out.growth_amount =
                     Latest(hist[res.id]).subscribers
                         - Earliest(hist[res.id]).subscribers

\* the fallback anchor on three records spanning three days and a part of a
\* day, the earliest count differing from the others
WitnessC23 ==
    /\ res.fn = "calculate_growth"
    /\ Len(hist[res.id]) = 3
    /\ BeforeWindow(hist[res.id], res.days) = {}
    /\ res.out.data_days >= 3
    /\ (Latest(hist[res.id]).date - Earliest(hist[res.id]).date) % DayUnits # 0
    /\ \A r \in Records(hist[res.id]) \ {Earliest(hist[res.id])} :
          r.subscribers # Earliest(hist[res.id]).subscribers
    /\ res.out.start_subs = Earliest(hist[res.id]).subscribers

(* ---------------- short-form rows in the update pass ---------------- *)
InPass == last.op = "update_channel_data"
ShortRows == {i \in 1..Len(last.before) : last.before[i].short_video}
\* the rows of the pass that are polled under the identifier of row i
PolledAs(i) ==
    {j \in 1..Len(last.before) :
        /\ ~last.before[j].short_video
        /\ Resolved(last.before[j]) = last.before[i].id}

\* C24: during and after an update pass, a row whose short-form flag is true has
\* not been polled, the row is the same in the frame and in the snapshot as it
\* was when the pass started, and no history record was appended for it.
TheoremC24 ==
    InPass => \A i \in ShortRows :
        /\ last.outcome[i] \in {"pending", "short"}
        /\ last.fetched[i] = 0
        /\ df[i] = last.before[i]
        /\ snapshot[i] = last.before[i]
        /\ (last.before[i].id # NoId /\ PolledAs(i) = {}) =>
              hist[last.before[i].id] = last.hist0[last.before[i].id]

\* a pass that was written back, in which a row after the short-form row was
\* fetched
WitnessC24 ==
    /\ PassDone
    /\ snapshot # last.before
    /\ \E i \in ShortRows : \E j \in RowsOf("ok") :
          /\ i < j
          /\ last.outcome[i] = "short"
          /\ last.before[i].current_subs > 0

(* ---------------- the entities a pruning run must leave alone ---------------- *)
\* C25: remove_inactive_channels marks no entity that has fewer than
\* MIN_INACTIVE_DAYS history records, is flagged short-form, has no identifier,
\* or whose start count (the oldest count of the fetched window) is not
\* positive.
ClaimC25 ==
    Scanned => \A row \in RowSet(last.before) :
        IF row.id = NoId THEN ~Marked(row.id)
        ELSE ( \/ row.short_video
               \/ Len(last.hist0[row.id]) < MIN_INACTIVE_DAYS
               \/ Oldest(row.id) <= 0 ) => ~Marked(row.id)

(* ---------------- history and snapshot after a pass ---------------- *)
\* C26: at the end of an update pass, for every row whose fetch succeeded, the
\* newest record of the history series of its entity carries the count stored
\* as current_subs in the row.
ClaimC26 ==
    PassDone => \A i \in RowsOf("ok") :
        /\ hist[snapshot[i].id] # <<>>
        /\ Latest(hist[snapshot[i].id]).subscribers = snapshot[i].current_subs

(* ---------------- one poll a day under the retention maximum ---------------- *)
\* An entity polled successfully once on each consecutive day, at any time of
\* the day; pass counts the days polled so far.  The count grows by 1000 a day,
\* enough for every growth threshold of the reports.
DailyCount(day) == 10000 + 1000 * day

\* monitor.py line 85 on day `pass`, `offset` clock units into the day
DailyPoll(offset) ==
    /\ pc = "idle"
    /\ pass < MaxDays
    /\ hist' = [hist EXCEPT !["a"] = append_history(hist["a"],
                                          pass * DayUnits + offset, DailyCount(pass))]
    /\ pass' = pass + 1
    /\ now' = (pass + 1) * DayUnits
    /\ UNCHANGED <<last, res, snapshot, archive, pc, df, idx, updated, mtries,
                   calls, tmp, writer, collect>>

InitDaily ==
    /\ InitIdle
    /\ hist = [i \in Ids |-> <<>>]
    /\ snapshot = <<Row("a", "a", 0, FALSE)>>

NextDaily ==
    \/ \E offset \in 0..DayUnits - 1 : DailyPoll(offset)
    \/ \E run \in ReportRuns : GenerateReport(run[1], run[2])

SpecDaily == InitDaily /\ [][NextDaily]_vars

\* C27: with MAX_HISTORY_RECORDS = 7 and one successful poll on each
\* consecutive day, the retained series never spans more than 6 whole days,
\* calculate_growth(days = 30) never returns data-days >= 7, and the monthly
\* report never includes the entity.
TheoremC27 ==
    /\ hist["a"] # <<>> => SpanDays(hist["a"]) <= 6
    /\ calculate_growth(hist["a"], 30).data_days < 7
    /\ calculate_monthly_growth(hist["a"], 30).data_days < 7
    /\ (Reported /\ res.report_type = "monthly") => res.rows = <<>>

\* more days polled than records retained, a full series that spans six days
\* and a part of a day, a weekly report that includes the entity and a monthly
\* report that was run
WitnessC27 ==
    /\ pass > MAX_HISTORY_RECORDS
    /\ Len(hist["a"]) = MAX_HISTORY_RECORDS
    /\ Latest(hist["a"]).date - Earliest(hist["a"]).date > 6 * DayUnits
    /\ calculate_growth(hist["a"], 30).data_days = 6
    /\ generate_report(snapshot, hist, 7, "weekly") # <<>>
    /\ Reported /\ res.report_type = "monthly" /\ res.rows = <<>>

(* ---------------- the greatest score a report row can carry ---------------- *)
\* C28: every row of a report of generate_report has a quality score of at
\* most 8: its end count is at most 500000, so its subscriber-scale component
\* is at most 1, and the two growth components add at most 4 + 3.
TheoremC28 ==
    Reported => \A r \in ReportRows :
        /\ r.end_subs <= 500000
        /\ subs_score(r.end_subs) <= 1
        /\ r.quality_score <= 8

\* a report with a row that reaches 8 with a subscriber-scale component of 1,
\* while an entity above the size cap is left out
WitnessC28 ==
    /\ Reported
    /\ \E r \in ReportRows : r.quality_score = 8 /\ subs_score(r.end_subs) = 1
    /\ \E row \in TableRows :
          /\ row.id # NoId /\ ~row.short_video
          /\ RowsFor(row) = {}
          /\ subs_score(RunGrowth(row).end_subs) = 2

(* ---------------- when the pass writes the snapshot ---------------- *)
\* a step that changes the snapshot file
SnapshotWritten == snapshot' # snapshot
\* the last row has been processed and some fetch of the pass succeeded
AtEndWithSuccess ==
    /\ pc = "update"
    /\ idx > Len(df)
    /\ \E i \in 1..Len(last.before) : last.outcome[i] = "ok"

\* C29: the snapshot file changes only in the step that ends a pass, after the
\* last row, and only if a fetch of the pass succeeded; while the pass runs the
\* file is as it was at the start, whatever history was appended; after a pass
\* without a successful fetch the file is unchanged, identifiers resolved in
\* the pass included.
TheoremC29 ==
    /\ [][SnapshotWritten => (AtEndWithSuccess /\ pc' = "idle" /\ snapshot' = df)]_vars
    /\ []((InPass /\ pc = "update") => snapshot = last.before)
    /\ []((PassDone /\ RowsOf("ok") = {}) => snapshot = last.before)

\* a completed pass without a successful fetch in which an identifier was
\* resolved: the frame carries it, the file does not
WitnessC29 ==
    /\ PassDone
    /\ RowsOf("ok") = {}
    /\ \E i \in RowsOf("fetch_failed") :
          /\ last.before[i].id = NoId
          /\ df[i].id # NoId
          /\ snapshot[i].id = NoId

(* ---------------- the order of the pruning steps ---------------- *)
\* the process is stopped between two of the three steps of lines 141-157;
\* whatever was written stays, the rest of the run does not happen; pass
\* counts the interruptions
PruneInterrupt ==
    /\ pc \in {"prune_archive", "prune_rewrite", "prune_delete"}
    /\ pass < MaxInterrupts
    /\ pass' = pass + 1
    /\ pc' = "idle"
    /\ UNCHANGED <<hist, last, res, snapshot, archive, now, df, idx, updated,
                   mtries, calls, tmp, writer, collect>>

NextPruneSteps ==
    \/ NextPrune
    \/ PruneInterrupt

SpecPruneSteps == InitPrune /\ [][NextPruneSteps]_vars

\* the rows of the scanned table that the run has taken out of the live table
RemovedRows == {row \in RowSet(last.before) : row \notin RowSet(snapshot)}
\* the identifiers whose history the run has deleted
DeletedIds ==
    {id \in IdSet(last.remove_ids) : hist[id] = <<>> /\ last.hist0[id] # <<>>}

\* C30: the archive is appended before the table is rewritten and the table is
\* rewritten before a history is deleted; so in every state of a pruning run,
\* finished, under way or interrupted, a row the run removed from the live
\* table is in the inactive archive, and an entity whose history the run
\* deleted has no row in the live table.
TheoremC30 ==
    /\ [](Scanned =>
            /\ RemovedRows \subseteq RowSet(archive)
            /\ \A id \in DeletedIds : \A r \in RowSet(snapshot) : r.id # id)
    /\ [][(pc = "prune_archive" /\ pc' # "idle") =>
             (archive' # archive /\ snapshot' = snapshot /\ hist' = hist)]_vars
    /\ [][(pc = "prune_rewrite" /\ pc' # "idle") =>
             (archive' = archive /\ snapshot' # snapshot /\ hist' = hist)]_vars
    /\ [][(pc = "prune_delete" /\ hist' # hist) =>
             (archive' = archive /\ snapshot' = snapshot)]_vars

\* a run interrupted between the rewrite and the deletion: the row is archived
\* and gone from the live table, the history is still there
WitnessC30 ==
    /\ Scanned /\ pc = "idle"
    /\ \E row \in RemovedRows :
          /\ Marked(row.id)
          /\ row \in RowSet(archive)
          /\ hist[row.id] # <<>>
====
